---- MODULE Spec2Model ----
(***************************************************************************)
(* The Collection Engine of welthee/dobermann: Collect and the per-account *)
(* workflow collect, over the Transactor (CreateERC20Tx, CreateTx,         *)
(* Transfer, VerifyTx, BalanceAt, BalanceOf, GetGasCapValues).             *)
(*                                                                         *)
(* The repository holds four versions of the engine; `variant` names the   *)
(* one a behaviour runs:                                                   *)
(*   "evm"     src/collector.go:356-496   evmCollector, sequential         *)
(*   "polygon" src/collector.go:66-207    PolygonCollector, sequential     *)
(*   "inline"  src/unnamed/part_003       evmCollector, loop body inline   *)
(*   "conc"    src/unnamed/part_004       evmCollector, one goroutine per  *)
(*                                        account                          *)
(* A network call is one action: the environment's answer is drawn with \E *)
(* and the code that runs up to the next call is part of the action.       *)
(***************************************************************************)
EXTENDS Integers, Sequences, FiniteSets, TLC

\* ------------------------------------------------------------------ bounds
NumAccounts == 2          \* source accounts handed to Collect
MaxTokenBalance == 10     \* largest ERC-20 balance the chain answers
MaxNativeBalance == 3     \* largest native balance the chain answers
MaxGasLimit == 2          \* largest gas estimate the chain answers
MaxHalfWei == 3           \* largest oracle fee, in half wei (num * 10^9 * 2)
MaxQueries == 4           \* receipt queries of one VerifyTx call on its own
MaxNonce == 2             \* largest nonce configured, and mined transactions per address
MaxCalls == 3             \* GetNonce calls on one provider
WordBits == 3             \* bits of the word that stands for uint64 and int64

\* ------------------------------------------------------- program constants
nonceTooLow == "nonce too low"
alreadyKnown == "already known"
replacementTransactionUnderpriced == "replacement transaction underpriced"

StatusFail == "fail"
StatusSuccess == "success"
StatusPending == "pending"
StatusSkip == "skip"

Statuses == {StatusFail, StatusSuccess, StatusPending, StatusSkip}

\* ------------------------------------------------- decimal strings, big.Int
\* A Go string of the model is a sequence of one-character strings.
Digits == <<"0", "1", "2", "3", "4", "5", "6", "7", "8", "9">>

IsDigit(c) == \E d \in 1..10 : Digits[d] = c

DigitVal(c) == (CHOOSE d \in 1..10 : Digits[d] = c) - 1

RECURSIVE NatString(_)
NatString(n) ==
    IF n < 10 THEN <<Digits[n + 1]>>
    ELSE NatString(n \div 10) \o <<Digits[(n % 10) + 1]>>

\* (*big.Int).String(): base 10, a leading "-" for a negative value.
BigString(n) == IF n < 0 THEN <<"-">> \o NatString(0 - n) ELSE NatString(n)

\* The length of the longest prefix of s made of digits.
RECURSIVE DigitPrefixLen(_)
DigitPrefixLen(s) ==
    IF s = <<>> \/ ~IsDigit(Head(s)) THEN 0 ELSE 1 + DigitPrefixLen(Tail(s))

RECURSIVE DigitsValue(_, _)
DigitsValue(s, acc) ==
    IF s = <<>> THEN acc ELSE DigitsValue(Tail(s), 10 * acc + DigitVal(Head(s)))

\* (*big.Int).SetString(s, 10): an optional sign, then at least one digit, then
\* the end of the string. ok = FALSE is the (nil, false) answer; val is then
\* what the receiver is left holding (the digits scanned before the failure).
SetString(s) ==
    LET signed == s # <<>> /\ Head(s) \in {"+", "-"}
        body == IF signed THEN Tail(s) ELSE s
        n == DigitPrefixLen(body)
        mag == DigitsValue(SubSeq(body, 1, n), 0)
    IN  [ok |-> n > 0 /\ n = Len(body),
         val |-> IF signed /\ Head(s) = "-" THEN 0 - mag ELSE mag]

\* ----------------------------------------------------------------- inputs
Accounts == 1..NumAccounts

\* SourceAccount.Amount: empty (collect everything), 1, the largest balance,
\* and a string that is no base-10 integer. The concurrent engine interleaves
\* NumAccounts workflows: its inputs and answers are the ends of each range.
AmountStrings(v) ==
    IF v = "conc" THEN {<<>>, NatString(MaxTokenBalance)}
    ELSE {<<>>, NatString(1), NatString(MaxTokenBalance), <<"x">>}

\* ------------------------------------------------------------------- state
VARIABLES
    variant,    \* which version of the engine runs
    accounts,   \* Collect's argument: the SourceAccounts, by position
    cursor,     \* the range loop of Collect: the next account's position
    pc,         \* pc[i]: where account i's workflow stands
    loc,        \* loc[i]: the locals of account i's workflow
    results,    \* the slice header of `results` in Collect
    heap,       \* the backing arrays `results` has pointed to
    sent,       \* sent[i]: the transactions account i's workflow in progress handed to Transfer
    polls,      \* polls[i]: the VerifyTx calls of that workflow, as they ended
    quotes,     \* quotes[i]: the GetGasCapValues calls of that workflow
    wg,         \* the WaitGroup counter of the concurrent Collect
    ret,        \* what Collect has returned, once it has
    cancelled,  \* the caller's context has been cancelled
    call,       \* a call of one function on its own: its arguments, position and answer
    nonces      \* the nonce provider in use, and the destination's count on the chain

vars == <<variant, accounts, cursor, pc, loc, results, heap, sent, polls, quotes, wg, ret,
          cancelled, call, nonces>>

TokenBalances == IF variant = "conc" THEN {0, 1} ELSE {0, 1, MaxTokenBalance}
NativeBalances == IF variant = "conc" THEN {0, MaxNativeBalance} ELSE 0..MaxNativeBalance
GasLimits == IF variant = "conc" THEN {1} ELSE 1..MaxGasLimit

\* ------------------------------------------------------------ Result, slice
\* A Result that reports the amount the workflow resolved.
getResultResolved(i, status) ==
    [Status |-> status, SourceAccount |-> i, Amount |-> loc[i].amount]

\* getResult: Result{SourceAccount: account, Status: status}, the account as
\* Collect was handed it.
getResult(i, status) == [Status |-> status, SourceAccount |-> i, Amount |-> accounts[i].Amount]

\* Result of PolygonCollector: {Status, Hash, Key}.
PolygonResult(i, status, hash) ==
    [Status |-> status, SourceAccount |-> i, Amount |-> accounts[i].Amount, Hash |-> hash]

\* The transaction hash a Result carries: its Hash field, none ("") where the
\* Result type has no such field.
ResultHash(r) == IF "Hash" \in DOMAIN r THEN r.Hash ELSE ""

ZeroResult == [Status |-> "", SourceAccount |-> 0, Amount |-> <<>>]

EmptySlice == [arr |-> 0, len |-> 0, cap |-> 0]

\* The elements a slice header shows.
SliceList(h, hp) == IF h.len = 0 THEN <<>> ELSE SubSeq(hp[h.arr], 1, h.len)

\* append(h, e) of Go: in place when the capacity allows, else into a new
\* backing array of doubled capacity holding a copy of the h.len elements.
GrowCap(cap) == IF cap = 0 THEN 1 ELSE 2 * cap

AppendHeap(h, hp, e) ==
    IF h.len < h.cap
    THEN [hp EXCEPT ![h.arr][h.len + 1] = e]
    ELSE Append(hp, [k \in 1..GrowCap(h.cap) |->
                       IF k <= h.len THEN hp[h.arr][k]
                       ELSE IF k = h.len + 1 THEN e ELSE ZeroResult])

AppendHeader(h, hp) ==
    IF h.len < h.cap
    THEN [h EXCEPT !.len = h.len + 1]
    ELSE [arr |-> Len(hp) + 1, len |-> h.len + 1, cap |-> GrowCap(h.cap)]


\* ------------------------------------------------------------ transactions
NoTx == [kind |-> "none", nonce |-> 0, gas |-> 0, tip |-> 0, fee |-> 0, value |-> 0, amount |-> 0]

\* getTransactionData: the amount the ERC-20 payload carries is what SetString
\* leaves in `amount` (its answer is not looked at); amount.Bytes() is the
\* magnitude.
getTransactionData(amountWei) ==
    LET v == SetString(amountWei).val IN IF v < 0 THEN 0 - v ELSE v

\* types.DynamicFeeTx of CreateERC20Tx: value 0, the amount in the data.
ERC20Tx(nonce, gas, tip, fee, amountWei) ==
    [kind |-> "erc20", nonce |-> nonce, gas |-> gas, tip |-> tip, fee |-> fee,
     value |-> 0, amount |-> getTransactionData(amountWei)]

\* A funding transaction priced one wei above the quote.
NativeTxRequoted(nonce, gas, tip, fee, amountWei) ==
    [kind |-> "native", nonce |-> nonce, gas |-> gas, tip |-> tip + 1, fee |-> fee + 1,
     value |-> SetString(amountWei).val, amount |-> 0]

\* types.DynamicFeeTx of CreateTx: value parsed from params.Amount, no data.
NativeTx(nonce, gas, tip, fee, amountWei) ==
    [kind |-> "native", nonce |-> nonce, gas |-> gas, tip |-> tip, fee |-> fee,
     value |-> SetString(amountWei).val, amount |-> 0]

\* tx.Hash().Hex(): "0x" and the digest of the signed transaction, which tells
\* two transactions of different content apart; never the empty string.
HashHex(tx) == "0x" \o ToString(tx)

\* ------------------------------------------------------------ nonce providers
NonceProviderTypeFixed == "fixed"
NonceProviderTypeNetwork == "network"

\* A *big.Int argument: <<>> is nil, <<n>> points to n.
\* NewFixedNonceProvider(nonce): the value given, 0 for nil.
NewFixedNonceProvider(nonce) ==
    [type |-> "fixed", nonce |-> IF nonce = <<>> THEN 0 ELSE nonce[1]]

NewNetworkNonceProvider == [type |-> "network", nonce |-> 0]

\* A switch whose default case is the network provider.
SelectNonceProviderDefaultNetwork(nonceProviderType) ==
    IF nonceProviderType = NonceProviderTypeFixed THEN NewFixedNonceProvider(<<>>)
    ELSE NewNetworkNonceProvider

\* NewEVMCollector: the switch on config.NonceProviderType.
SelectNonceProvider(nonceProviderType) ==
    IF nonceProviderType = NonceProviderTypeNetwork THEN NewNetworkNonceProvider
    ELSE NewFixedNonceProvider(<<>>)

\* A provider that answers its own value whatever the chain holds.
GetNonceOffChain(provider, chainNonce) == provider.nonce

\* GetNonce: the fixed provider answers its value; the network provider answers
\* NonceAt, the count of the address's transactions the chain has mined.
GetNonce(provider, chainNonce) ==
    IF provider.type = "fixed" THEN provider.nonce ELSE chainNonce

\* The chain's count for the destination and the funding transactions built
\* with it are read by the network provider alone, and followed only where it
\* is in use. CreateTx built account i's funding transaction with nonce n.
Issued(ns, i, n) ==
    IF ns.provider.type = "network"
    THEN [ns EXCEPT !.funded = Append(@, [account |-> i, nonce |-> n, confirmed |-> FALSE])]
    ELSE ns

\* A receipt r of account i's funding transaction was found: the transaction
\* is mined, and confirmed when the receipt's status is success.
Mined(ns, i, r) ==
    IF ns.provider.type = "network"
    THEN [ns EXCEPT !.dest = @ + 1,
                    !.funded = [k \in 1..Len(@) |->
                                  IF @[k].account = i
                                  THEN [@[k] EXCEPT !.confirmed = (r = "success")]
                                  ELSE @[k]]]
    ELSE ns

\* ----------------------------------------------------------------- contexts
\* A context.Context, as far as VerifyTx asks it: whether a deadline is set.
Background == [hasDeadline |-> FALSE]

\* The context handed on as it came.
WithoutTimeout(ctx) == ctx

\* context.WithTimeout(ctx, 2*time.Minute): the child carries a deadline.
WithTimeout(ctx) == [ctx EXCEPT !.hasDeadline = TRUE]

deadlineNotSet == "context deadline not set"
txIsEmpty == "tx is empty"

\* VerifyTx, before its loop: the error it returns at once, or "".
VerifyTxEntry(ctx, txHash) ==
    IF ~ctx.hasDeadline THEN deadlineNotSet
    ELSE IF txHash = "" THEN txIsEmpty
    ELSE ""

\* A call that was handed the caller's context answers with one of `errors`
\* once that context is cancelled.
UnderCtx(answers, errors) == IF cancelled THEN errors ELSE answers

\* ------------------------------------------------------------ gas fee oracle
\* A fee of the oracle's answer is a float64 in gwei; h stands for the float
\* whose product with 10^9 is h / 2. math.Round rounds halves away from zero.
Round(h) == IF h >= 0 THEN (h + 1) \div 2 ELSE 0 - ((1 - h) \div 2)

\* The float64 +Inf, which num * 10^9 overflows to for a num near the top of
\* the float64 range; it stands above every finite fee of the model.
PosInf == 2 * MaxHalfWei + 1

\* formatFloat(num, 9): strconv.FormatFloat(math.Round(num * 10^9), 'f', -1, 64).
formatFloat(h) ==
    IF h = PosInf THEN <<"+", "I", "n", "f">> ELSE BigString(Round(h))

\* A quote of zero fees in place of every failure.
GetGasCapValuesWithFallback(resp) ==
    IF resp.err \/ resp.tip = PosInf \/ resp.fee = PosInf
    THEN [err |-> FALSE, tip |-> 0, fee |-> 0]
    ELSE [err |-> FALSE, tip |-> Round(resp.tip), fee |-> Round(resp.fee)]

\* GetGasCapValues, after the gas tracker answered.
GetGasCapValues(resp) ==
    LET t == SetString(formatFloat(resp.tip))
        f == SetString(formatFloat(resp.fee))
    IN  IF resp.err \/ ~t.ok \/ ~f.ok
        THEN [err |-> TRUE, tip |-> 0, fee |-> 0]
        ELSE [err |-> FALSE, tip |-> t.val, fee |-> f.val]

\* safeLow.maxPriorityFee and safeLow.maxFee of the answers, in half wei.
TipHalfWeis == {1}
FeeHalfWeis == IF variant = "conc" THEN {MaxHalfWei} ELSE {1, MaxHalfWei, PosInf}

\* GetSuggestedGasPriceFromGasTracker: an error (transport, decode), or an answer.
OracleAnswers ==
    {[err |-> TRUE, tip |-> 0, fee |-> 0]} \cup
    {[err |-> FALSE, tip |-> t, fee |-> f] : t \in TipHalfWeis, f \in FeeHalfWeis}

\* ------------------------------------------------------ environment answers
BalanceOfAnswers ==
    {[err |-> TRUE, val |-> 0]} \cup {[err |-> FALSE, val |-> b] : b \in TokenBalances}

BalanceAtAnswers ==
    {[err |-> TRUE, val |-> 0]} \cup {[err |-> FALSE, val |-> b] : b \in NativeBalances}

\* CreateERC20Tx / CreateTx: the nonce lookup, the gas estimate or the signer
\* may fail; otherwise the chain estimates a gas limit.
BuildAnswers ==
    {[err |-> e, gas |-> 0] : e \in {"nonce", "estimate", "sign"}} \cup
    {[err |-> "", gas |-> g] : g \in GasLimits}

\* NonceAt and EstimateGas are handed the caller's context.
BuildCancelled == {[err |-> e, gas |-> 0] : e \in {"nonce", "estimate"}}

\* SendTransaction: accepted (""), or refused with a message: one of the three
\* the collector knows, one of them inside a longer text, or another.
BroadcastAnswers ==
    {"", nonceTooLow, alreadyKnown, replacementTransactionUnderpriced, "insufficient funds",
     "nonce too low: next nonce 1", "tx: already known",
     "tx: replacement transaction underpriced: next nonce 1"}

\* TransactionReceipt: a receipt with status 1 or 0, no receipt yet, or a failed lookup.
ReceiptAnswers == {"success", "reverted", "notfound", "lookuperr"}

\* No call of VerifyTx on its own is under way.
NoCall == [state |-> "none"]

\* The calls of VerifyTx: by any user of the Transactor ("direct"), with a
\* context with or without a deadline and a hash that may be empty; and by
\* collect, for the funding transaction and for the token transfer, with
\* WithTimeout of the context Collect was given and the hash of a built
\* transaction.
CallInputs ==
    LET new(c, ctx, h) ==
            [state |-> "entry", caller |-> c, ctx |-> ctx, txHash |-> h, queries |-> 0,
             isMined |-> FALSE, err |-> FALSE, msg |-> "", end |-> "",
             errs |-> 0, last |-> ""]
        ctxs == {[hasDeadline |-> d] : d \in BOOLEAN}
    IN  {new("direct", ctx, h) : ctx \in ctxs, h \in {"", "0x1"}}
        \cup {new("funding", WithTimeout(parent),
                  HashHex(NativeTx(0, g, 1, 1, NatString(1)))) :
                parent \in ctxs, g \in 1..MaxGasLimit}
        \cup {new("transfer", WithTimeout(parent),
                  HashHex(ERC20Tx(0, g, 1, 1, NatString(1)))) :
                parent \in ctxs, g \in 1..MaxGasLimit}

\* ------------------------------------------------------------------ locals
NoLocals ==
    [tokenBalance |-> 0 - 1, amount |-> <<>>, tip |-> 0 - 1, fee |-> 0 - 1,
     erc20Tx |-> NoTx, native |-> 0 - 1, estimatedFee |-> 0 - 1, remainingFee |-> 0,
     nativTx |-> NoTx, result |-> ZeroResult, hdr |-> EmptySlice,
     oracle |-> "none", built |-> NoTx, broadcast |-> NoTx,
     erc20Err |-> "", nativErr |-> ""]


\* --------------------------------------------------- decisions of the code
\* collect of "evm": the amount to transfer. A fixed Amount is parsed and
\* compared with the balance; SetString's nil answer is dereferenced by Cmp.
ResolveAmount(amount, tokenBalance) ==
    IF amount # <<>>
    THEN LET a == SetString(amount)
         IN  IF ~a.ok THEN [outcome |-> "panic", amount |-> amount]
             ELSE IF tokenBalance < a.val THEN [outcome |-> "fail", amount |-> amount]
             ELSE [outcome |-> "ok", amount |-> amount]
    ELSE [outcome |-> "ok", amount |-> BigString(tokenBalance)]

\* "polygon", "inline" and "conc": TxParams.Amount is account.Amount as given.
PassAmount(amount, tokenBalance) == [outcome |-> "ok", amount |-> amount]

\* int64(x) of an unsigned word x: the same bits read as two's complement, so
\* the upper half of the range comes out negative.
Int64(x) == IF x < 2 ^ (WordBits - 1) THEN x ELSE x - 2 ^ WordBits

\* estimatedFee := int64(erc20Tx.Gas()) * gasFeeCapValue + gasTipCapValue,
\* in big.Int arithmetic once the gas limit has been cast.
EstimatedFee(gas, fee, tip) == Int64(gas) * fee + tip

\* "evm" and "conc": fund when remainingFee > 0.
NeedsFunding(native, remainingFee) == remainingFee > 0

\* "polygon" and "inline": fund when the balance is positive and remainingFee >= 0.
NeedsFundingLegacy(native, remainingFee) == native > 0 /\ remainingFee >= 0

\* A switch whose default case is pending.
TransferErrorStatusDefaultPending(msg) ==
    IF msg = nonceTooLow THEN StatusSkip ELSE StatusPending

\* A switch that tells only "nonce too low" apart.
TransferErrorStatusNoPending(msg) ==
    IF msg = nonceTooLow THEN StatusSkip ELSE StatusFail

\* A switch that looks for the three messages inside the error's text.
TransferErrorStatusContains(msg) ==
    LET pads == {"", "tx: ", ": next nonce 1"}
        Contains(inner) == \E p \in pads, q \in pads : msg = p \o inner \o q
    IN  IF Contains(nonceTooLow) THEN StatusSkip
        ELSE IF Contains(alreadyKnown) \/ Contains(replacementTransactionUnderpriced)
        THEN StatusPending
        ELSE StatusFail

\* "evm", "inline", "conc": the switch on the token transfer's broadcast error.
TransferErrorStatus(msg) ==
    IF msg = nonceTooLow THEN StatusSkip
    ELSE IF msg = alreadyKnown \/ msg = replacementTransactionUnderpriced THEN StatusPending
    ELSE StatusFail

\* "polygon": every broadcast error of the token transfer is a fail.
TransferErrorStatusPolygon(msg) == StatusFail

\* A switch that reads a poll's error as "not mined yet".
ConfirmStatusPendingOnError(v) == IF v.isMined THEN StatusSuccess ELSE StatusPending

\* A check of VerifyTx's error alone, `if !isMined` left out.
FundingConfirmedByErrorAlone(v) == ~v.err

\* After VerifyTx of the funding transaction: go on only when mined.
FundingConfirmed(v) == ~v.err /\ v.isMined

\* After VerifyTx of the token transfer.
ConfirmStatus(v) ==
    IF v.err THEN StatusFail
    ELSE IF ~v.isMined THEN StatusPending
    ELSE StatusSuccess

\* A verdict that takes any receipt for a mined transaction.
ReceiptVerdictAnyStatus(r) == [isMined |-> TRUE, err |-> FALSE]

\* VerifyTx, on a receipt: mined when its status is 1.
ReceiptVerdict(r) == [isMined |-> r = "success", err |-> FALSE]

\* VerifyTx, on ctx.Done() (the deadline elapsed or the caller cancelled).
DoneVerdict == [isMined |-> FALSE, err |-> TRUE]

\* Why ctx.Done() of the poll's context fired: the caller cancelled, or else the
\* deadline of WithTimeout elapsed.
DoneReason == IF cancelled THEN "cancelled" ELSE "expired"

\* A token transfer built anew for the broadcast.
TransferArgumentRebuilt(locals) == [locals.erc20Tx EXCEPT !.nonce = @ + 1]

\* The transaction collect hands to Transfer in step 7: the variable erc20Tx.
TransferArgument(locals) == locals.erc20Tx

\* The locals, with the transaction handed to Transfer in step 7 noted.
Broadcast(locals) == [locals EXCEPT !.broadcast = TransferArgument(locals)]

\* ------------------------------------------------------------- control flow
Sequential == variant # "conc"

\* Account i's workflow is the one running (sequential), or has been spawned.
Active(i) ==
    /\ ret.state = "running"
    /\ IF Sequential THEN cursor = i ELSE pc[i] # "idle"

\* The workflow goes on to its next call.
Continue(i, next, locals) ==
    /\ pc' = [pc EXCEPT ![i] = next]
    /\ loc' = [loc EXCEPT ![i] = locals]
    /\ UNCHANGED <<results, heap, cursor, ret>>

\* results = append(results, r) in the sequential Collect: one step.
AppendResult(r) ==
    /\ results' = AppendHeader(results, heap)
    /\ heap' = AppendHeap(results, heap, r)

\* The workflow ends: `return getResult(ctx, account, status)`.
FinishWith(i, status, locals) ==
    /\ pc' = [pc EXCEPT ![i] = "returned"]
    /\ loc' = [loc EXCEPT ![i] = [locals EXCEPT !.result =
                  IF variant = "polygon"
                  THEN PolygonResult(i, status,
                                     IF status = StatusSuccess THEN HashHex(locals.erc20Tx)
                                     ELSE "")
                  ELSE getResult(i, status)]]
    /\ UNCHANGED <<results, heap, cursor, ret>>

Finish(i, status) == FinishWith(i, status, loc[i])

\* "polygon": `return nil, err` out of the loop.
Abort ==
    /\ ret' = [state |-> "returned", list |-> <<>>, err |-> TRUE]
    /\ UNCHANGED <<pc, loc, results, heap, cursor>>

\* A nil dereference: the process dies inside Collect.
Panic ==
    /\ ret' = [state |-> "panicked", list |-> <<>>, err |-> TRUE]
    /\ UNCHANGED <<pc, loc, results, heap, cursor>>


\* ------------------------------------------------------------------ actions
\* "polygon": decryptKey(collectionKey) before the loop.
DecryptCollectionKey ==
    /\ variant = "polygon" /\ ret.state = "running" /\ cursor = 0
    /\ \E ok \in BOOLEAN :
         IF ok THEN cursor' = 1 /\ UNCHANGED <<pc, loc, results, heap, ret>>
         ELSE Abort
    /\ UNCHANGED <<variant, accounts, cancelled, call, nonces, sent, polls, quotes, wg>>

\* "polygon": decryptKey(key) and GetAddressFromKey at the head of the loop body.
DecryptKey(i) ==
    /\ Active(i) /\ pc[i] = "decrypt"
    /\ \E ans \in {"ok", "decryptErr", "addressErr"} :
         IF ans = "decryptErr" THEN Abort
         ELSE IF ans = "addressErr" THEN Finish(i, StatusFail)
         ELSE Continue(i, "balanceOf", loc[i])
    /\ UNCHANGED <<variant, accounts, cancelled, call, nonces, sent, polls, quotes, wg>>

\* Step 1, BalanceOf, and the amount resolution that follows it.
BalanceOf(i) ==
    /\ Active(i) /\ pc[i] = "balanceOf"
    /\ \E ans \in BalanceOfAnswers :
         IF ans.err THEN Finish(i, StatusFail)
         ELSE IF ans.val = 0
         THEN IF variant = "polygon"
              \* `if !hasTokenToCollect` appends the skip and falls through
              THEN /\ AppendResult(PolygonResult(i, StatusSkip, ""))
                   /\ pc' = [pc EXCEPT ![i] = "gasCap"]
                   /\ loc' = [loc EXCEPT ![i].tokenBalance = 0,
                                         ![i].amount = accounts[i].Amount]
                   /\ UNCHANGED <<cursor, ret>>
              ELSE FinishWith(i, StatusSkip, [loc[i] EXCEPT !.tokenBalance = 0])
         ELSE LET r == IF variant = "evm"
                       THEN ResolveAmount(accounts[i].Amount, ans.val)
                       ELSE PassAmount(accounts[i].Amount, ans.val)
              IN  IF r.outcome = "panic" THEN Panic
                  ELSE IF r.outcome = "fail"
                  THEN FinishWith(i, StatusFail, [loc[i] EXCEPT !.tokenBalance = ans.val])
                  ELSE Continue(i, "gasCap",
                                [loc[i] EXCEPT !.tokenBalance = ans.val, !.amount = r.amount])
    /\ UNCHANGED <<variant, accounts, cancelled, call, nonces, sent, polls, quotes, wg>>

\* Step 3, GetGasCapValues.
GasCap(i) ==
    /\ Active(i) /\ pc[i] = "gasCap"
    /\ quotes' = [quotes EXCEPT ![i] = @ + 1]
    /\ \E resp \in OracleAnswers :
         LET q == GetGasCapValues(resp)
             how == IF resp.err THEN "error" ELSE IF q.err THEN "unconvertible" ELSE "quoted"
         IN  IF q.err THEN FinishWith(i, StatusFail, [loc[i] EXCEPT !.oracle = how])
             ELSE Continue(i, "createERC20",
                           [loc[i] EXCEPT !.tip = q.tip, !.fee = q.fee, !.oracle = how])
    /\ UNCHANGED <<variant, accounts, cancelled, call, nonces, sent, polls, wg>>

\* CreateERC20Tx whose error collect does not look at: the workflow goes on
\* with the transaction as it is.
CreateERC20TxUnchecked(i) ==
    /\ Active(i) /\ pc[i] = "createERC20"
    /\ \E ans \in UnderCtx(BuildAnswers, BuildCancelled) :
         Continue(i, "balanceAt",
                  [loc[i] EXCEPT !.erc20Err = ans.err,
                                 !.erc20Tx = ERC20Tx(0, ans.gas, loc[i].tip, loc[i].fee,
                                                     loc[i].amount)])
    /\ UNCHANGED <<variant, accounts, cancelled, call, nonces, sent, polls, quotes, wg>>

\* Step 4, CreateERC20Tx.
CreateERC20Tx(i) ==
    /\ Active(i) /\ pc[i] = "createERC20"
    /\ \E ans \in UnderCtx(BuildAnswers, BuildCancelled) :
         IF ans.err # "" THEN FinishWith(i, StatusFail, [loc[i] EXCEPT !.erc20Err = ans.err])
         ELSE Continue(i, "balanceAt",
                       LET tx == ERC20Tx(GetNonce(nonces.provider, 0), ans.gas, loc[i].tip, loc[i].fee, loc[i].amount)
                       IN  [loc[i] EXCEPT !.erc20Tx = tx, !.built = tx])
    /\ UNCHANGED <<variant, accounts, cancelled, call, nonces, sent, polls, quotes, wg>>

\* Step 5, BalanceAt and the funding decision.
BalanceAt(i) ==
    /\ Active(i) /\ pc[i] = "balanceAt"
    /\ \E ans \in UnderCtx(BalanceAtAnswers, {[err |-> TRUE, val |-> 0]}) :
         IF ans.err
         THEN IF variant = "polygon" THEN Abort ELSE Finish(i, StatusFail)
         ELSE LET est == EstimatedFee(loc[i].erc20Tx.gas, loc[i].fee, loc[i].tip)
                  rem == est - ans.val
                  fund == IF variant \in {"evm", "conc"}
                          THEN NeedsFunding(ans.val, rem)
                          ELSE NeedsFundingLegacy(ans.val, rem)
              IN  Continue(i, IF fund THEN "createTx" ELSE "transferERC20",
                           [loc[i] EXCEPT !.native = ans.val, !.estimatedFee = est,
                                          !.remainingFee = rem])
    /\ UNCHANGED <<variant, accounts, cancelled, call, nonces, sent, polls, quotes, wg>>

\* Step 6, CreateTx of the funding transaction. "polygon" does not look at
\* EstimateGas's error and builds with the gas limit 0 it came with.
CreateTx(i) ==
    /\ Active(i) /\ pc[i] = "createTx"
    /\ \E ans \in UnderCtx(BuildAnswers, BuildCancelled) :
         IF ans.err # "" /\ ~(variant = "polygon" /\ ans.err = "estimate")
         THEN /\ FinishWith(i, StatusFail, [loc[i] EXCEPT !.nativErr = ans.err])
              /\ UNCHANGED nonces
         ELSE LET nonce == GetNonce(nonces.provider, nonces.dest)
              IN  /\ Continue(i, "transferNative",
                              [loc[i] EXCEPT !.nativErr = ans.err, !.nativTx =
                                  NativeTx(nonce, ans.gas, loc[i].tip, loc[i].fee,
                                           BigString(loc[i].remainingFee))])
                  /\ nonces' = Issued(nonces, i, nonce)
    /\ UNCHANGED <<variant, accounts, cancelled, call, sent, polls, quotes, wg>>

\* Step 6, Transfer of the funding transaction.
TransferNative(i) ==
    /\ Active(i) /\ pc[i] = "transferNative"
    /\ \E msg \in BroadcastAnswers :
         /\ sent' = [sent EXCEPT ![i] = Append(@, [kind |-> "native", err |-> msg])]
         /\ IF msg # "" THEN Finish(i, StatusFail)
            ELSE IF VerifyTxEntry(WithTimeout(Background), HashHex(loc[i].nativTx)) # ""
            THEN Finish(i, StatusFail)
            ELSE Continue(i, "verifyNative", loc[i])
    /\ UNCHANGED <<variant, accounts, cancelled, call, nonces, polls, quotes, wg>>

\* A step 7 that broadcasts again after an error.
TransferERC20Retried(i) ==
    /\ Active(i) /\ pc[i] = "transferERC20" /\ Len(sent[i]) < 4
    /\ \E msg \in BroadcastAnswers :
         /\ sent' = [sent EXCEPT ![i] = Append(@, [kind |-> "erc20", err |-> msg])]
         /\ IF msg # "" THEN Continue(i, "transferERC20", Broadcast(loc[i]))
            ELSE Continue(i, "verifyERC20", Broadcast(loc[i]))
    /\ UNCHANGED <<variant, accounts, cancelled, call, nonces, polls, quotes, wg>>

\* Step 7, Transfer of the token transfer, and the switch on its error.
TransferERC20(i) ==
    /\ Active(i) /\ pc[i] = "transferERC20"
    /\ \E msg \in BroadcastAnswers :
         /\ sent' = [sent EXCEPT ![i] = Append(@, [kind |-> "erc20", err |-> msg])]
         /\ IF msg # ""
            THEN FinishWith(i, IF variant = "polygon" THEN TransferErrorStatusPolygon(msg)
                               ELSE TransferErrorStatus(msg),
                            Broadcast(loc[i]))
            ELSE IF VerifyTxEntry(WithTimeout(Background), HashHex(loc[i].erc20Tx)) # ""
            THEN FinishWith(i, StatusFail, Broadcast(loc[i]))
            ELSE Continue(i, "verifyERC20", Broadcast(loc[i]))
    /\ UNCHANGED <<variant, accounts, cancelled, call, nonces, polls, quotes, wg>>

VerifyKind(i) == IF pc[i] \in {"verifyNative", "waitNative"} THEN "native" ELSE "erc20"

\* collect, once VerifyTx has returned v for the transaction of kind `kind`.
AfterVerify(i, kind, v) ==
    IF kind = "native"
    THEN IF FundingConfirmed(v) THEN Continue(i, "transferERC20", loc[i])
         ELSE Finish(i, StatusFail)
    ELSE Finish(i, ConfirmStatus(v))

\* VerifyTx: one TransactionReceipt query of the poll loop.
VerifyQuery(i) ==
    /\ Active(i) /\ pc[i] \in {"verifyNative", "verifyERC20"}
    /\ \E r \in UnderCtx(ReceiptAnswers, {"lookuperr"}) :
         IF r \in {"success", "reverted"}
         THEN /\ polls' = [polls EXCEPT ![i] = Append(@, [kind |-> VerifyKind(i), end |-> r])]
              /\ nonces' = IF VerifyKind(i) = "native" THEN Mined(nonces, i, r) ELSE nonces
              /\ AfterVerify(i, VerifyKind(i), ReceiptVerdict(r))
         ELSE /\ Continue(i, IF VerifyKind(i) = "native" THEN "waitNative" ELSE "waitERC20",
                          loc[i])
              /\ UNCHANGED <<polls, nonces>>
    /\ UNCHANGED <<variant, accounts, cancelled, call, sent, quotes, wg>>

\* VerifyTx: the select of the poll loop, on the ticker.
VerifyTick(i) ==
    /\ Active(i) /\ pc[i] \in {"waitNative", "waitERC20"}
    /\ Continue(i, IF VerifyKind(i) = "native" THEN "verifyNative" ELSE "verifyERC20", loc[i])
    /\ UNCHANGED <<variant, accounts, cancelled, call, nonces, sent, polls, quotes, wg>>

\* A select without `case <-ctx.Done()`: the poll stays where it is.
VerifyNeverDone(i) ==
    /\ Active(i) /\ pc[i] \in {"waitNative", "waitERC20"}
    /\ UNCHANGED vars

\* VerifyTx: the select of the poll loop, on ctx.Done().
VerifyDone(i) ==
    /\ Active(i) /\ pc[i] \in {"waitNative", "waitERC20"}
    /\ polls' = [polls EXCEPT ![i] = Append(@, [kind |-> VerifyKind(i), end |-> DoneReason])]
    /\ AfterVerify(i, VerifyKind(i), DoneVerdict)
    /\ UNCHANGED <<variant, accounts, cancelled, call, nonces, sent, quotes, wg>>

\* Sequential Collect: results = append(results, c.collect(...)), and the loop
\* moves on; the workflow's frame is gone.
CollectAppend(i) ==
    /\ Sequential /\ Active(i) /\ pc[i] = "returned"
    /\ AppendResult(loc[i].result)
    /\ pc' = [pc EXCEPT ![i] = "done"]
    /\ loc' = [loc EXCEPT ![i] = NoLocals]
    /\ sent' = [sent EXCEPT ![i] = <<>>]
    /\ polls' = [polls EXCEPT ![i] = <<>>]
    /\ quotes' = [quotes EXCEPT ![i] = 0]
    /\ cursor' = cursor + 1
    /\ UNCHANGED <<variant, accounts, cancelled, call, nonces, wg, ret>>

\* Sequential Collect: the loop is over, `return results`.
CollectReturn ==
    /\ Sequential /\ ret.state = "running" /\ cursor = NumAccounts + 1
    /\ ret' = [state |-> "returned", list |-> SliceList(results, heap), err |-> FALSE]
    /\ UNCHANGED <<variant, accounts, cancelled, call, nonces, cursor, pc, loc, results, heap, sent, polls, quotes, wg>>

\* Concurrent Collect: wg.Add(1) and `go func(account)` for the next account.
Spawn(i) ==
    /\ variant = "conc" /\ ret.state = "running" /\ cursor = i /\ pc[i] = "idle"
    /\ wg' = wg + 1
    /\ pc' = [pc EXCEPT ![i] = "balanceOf"]
    /\ cursor' = cursor + 1
    /\ UNCHANGED <<variant, accounts, cancelled, call, nonces, loc, results, heap, sent, polls, quotes, ret>>

\* The goroutine's `results = append(results, result)`, which no lock guards,
\* in its three steps. First: read the slice header; collect's frame is gone.
AppendRead(i) ==
    /\ variant = "conc" /\ Active(i) /\ pc[i] = "returned"
    /\ pc' = [pc EXCEPT ![i] = "appendWrite"]
    /\ loc' = [loc EXCEPT ![i] = [NoLocals EXCEPT !.result = loc[i].result, !.hdr = results]]
    /\ sent' = [sent EXCEPT ![i] = <<>>]
    /\ polls' = [polls EXCEPT ![i] = <<>>]
    /\ quotes' = [quotes EXCEPT ![i] = 0]
    /\ UNCHANGED <<variant, accounts, cancelled, call, nonces, cursor, results, heap, wg, ret>>

\* Second: write the element, in place or into a grown copy.
AppendWrite(i) ==
    /\ variant = "conc" /\ Active(i) /\ pc[i] = "appendWrite"
    /\ heap' = AppendHeap(loc[i].hdr, heap, loc[i].result)
    /\ loc' = [loc EXCEPT ![i].hdr = AppendHeader(loc[i].hdr, heap)]
    /\ pc' = [pc EXCEPT ![i] = "appendPublish"]
    /\ UNCHANGED <<variant, accounts, cancelled, call, nonces, cursor, results, sent, polls, quotes, wg, ret>>

\* Third: store the new slice header in `results`.
AppendPublish(i) ==
    /\ variant = "conc" /\ Active(i) /\ pc[i] = "appendPublish"
    /\ results' = loc[i].hdr
    /\ pc' = [pc EXCEPT ![i] = "wgDone"]
    /\ UNCHANGED <<variant, accounts, cancelled, call, nonces, cursor, loc, heap, sent, polls, quotes, wg, ret>>

\* The goroutine's deferred wg.Done().
WgDone(i) ==
    /\ variant = "conc" /\ Active(i) /\ pc[i] = "wgDone"
    /\ wg' = wg - 1
    /\ pc' = [pc EXCEPT ![i] = "done"]
    /\ loc' = [loc EXCEPT ![i] = NoLocals]
    /\ UNCHANGED <<variant, accounts, cancelled, call, nonces, cursor, results, heap, sent, polls, quotes, ret>>

\* A return once the loop has spawned the workers, without wg.Wait().
ReturnWithoutWait ==
    /\ variant = "conc" /\ ret.state = "running" /\ cursor = NumAccounts + 1
    /\ ret' = [state |-> "returned", list |-> SliceList(results, heap), err |-> FALSE]
    /\ UNCHANGED <<variant, accounts, cancelled, call, nonces, cursor, pc, loc, results, heap, sent,
                   polls, quotes, wg>>

\* Concurrent Collect: wg.Wait() is passed, `return results`.
WaitReturn ==
    /\ variant = "conc" /\ ret.state = "running" /\ cursor = NumAccounts + 1 /\ wg = 0
    /\ ret' = [state |-> "returned", list |-> SliceList(results, heap), err |-> FALSE]
    /\ UNCHANGED <<variant, accounts, cancelled, call, nonces, cursor, pc, loc, results, heap, sent, polls, quotes, wg>>

\* VerifyTx returns (v.isMined, an error or nil).
CallReturn(v, msg, end) ==
    call' = [call EXCEPT !.state = "returned", !.isMined = v.isMined, !.err = v.err,
                         !.msg = msg, !.end = end]

\* VerifyTx on its own: the checks before the loop.
VerifyTxStart ==
    /\ call.state = "entry"
    /\ LET e == VerifyTxEntry(call.ctx, call.txHash)
       IN  IF e # "" THEN CallReturn([isMined |-> FALSE, err |-> TRUE], e, "entry")
           ELSE call' = [call EXCEPT !.state = "query"]
    /\ UNCHANGED <<variant, accounts, cursor, pc, loc, results, heap, sent, polls, quotes, wg,
                   ret, cancelled, nonces>>

\* A poll that hands a failed receipt lookup back to its caller.
VerifyTxQueryStrict ==
    /\ call.state = "query"
    /\ \E r \in UnderCtx(ReceiptAnswers, {"lookuperr"}) :
         IF r \in {"success", "reverted"}
         THEN call' = [call EXCEPT !.state = "returned", !.queries = @ + 1, !.last = r,
                                   !.isMined = ReceiptVerdict(r).isMined,
                                   !.err = ReceiptVerdict(r).err, !.end = r]
         ELSE IF r = "lookuperr"
         THEN call' = [call EXCEPT !.state = "returned", !.queries = @ + 1, !.last = r,
                                   !.errs = @ + 1, !.err = TRUE, !.msg = "lookup failed",
                                   !.end = r]
         ELSE call' = [call EXCEPT !.state = "wait", !.queries = @ + 1, !.last = r]
    /\ UNCHANGED <<variant, accounts, cursor, pc, loc, results, heap, sent, polls, quotes, wg,
                   ret, cancelled, nonces>>

\* VerifyTx on its own: one TransactionReceipt query. A receipt ends the poll;
\* a lookup error is logged and the loop goes to its select.
VerifyTxQuery ==
    /\ call.state = "query"
    /\ \E r \in UnderCtx(ReceiptAnswers, {"lookuperr"}) :
         IF r \in {"success", "reverted"}
         THEN call' = [call EXCEPT !.state = "returned", !.queries = @ + 1, !.last = r,
                                   !.isMined = ReceiptVerdict(r).isMined,
                                   !.err = ReceiptVerdict(r).err, !.end = r]
         ELSE call' = [call EXCEPT !.state = "wait", !.queries = @ + 1, !.last = r,
                                   !.errs = IF r = "lookuperr" THEN @ + 1 ELSE @]
    /\ UNCHANGED <<variant, accounts, cursor, pc, loc, results, heap, sent, polls, quotes, wg,
                   ret, cancelled, nonces>>

\* VerifyTx on its own: the select, on the ticker.
VerifyTxTick ==
    /\ call.state = "wait" /\ call.queries < MaxQueries
    /\ call' = [call EXCEPT !.state = "query"]
    /\ UNCHANGED <<variant, accounts, cursor, pc, loc, results, heap, sent, polls, quotes, wg,
                   ret, cancelled, nonces>>

\* VerifyTx on its own: the select, on ctx.Done(); the error is ctx.Err().
VerifyTxDone ==
    /\ call.state = "wait"
    /\ CallReturn(DoneVerdict,
                  IF cancelled THEN "context canceled" ELSE "context deadline exceeded",
                  DoneReason)
    /\ UNCHANGED <<variant, accounts, cursor, pc, loc, results, heap, sent, polls, quotes, wg,
                   ret, cancelled, nonces>>

\* The caller cancels the context it handed to Collect.
Cancel ==
    /\ ret.state = "running" /\ ~cancelled
    /\ cancelled' = TRUE
    /\ UNCHANGED <<variant, accounts, cursor, pc, loc, results, heap, sent, polls, quotes, wg,
                   ret, call, nonces>>

\* ------------------------------------------------------------ specifications
InitWith(v, nonceProviderType) ==
    /\ variant = v
    /\ accounts \in [Accounts -> [Amount : AmountStrings(v)]]
    /\ cursor = IF v = "polygon" THEN 0 ELSE 1
    /\ pc = [i \in Accounts |->
               IF v = "conc" THEN "idle" ELSE IF v = "polygon" THEN "decrypt" ELSE "balanceOf"]
    /\ loc = [i \in Accounts |-> NoLocals]
    /\ results = EmptySlice
    /\ heap = <<>>
    /\ sent = [i \in Accounts |-> <<>>]
    /\ polls = [i \in Accounts |-> <<>>]
    /\ quotes = [i \in Accounts |-> 0]
    /\ wg = 0
    /\ ret = [state |-> "running", list |-> <<>>, err |-> FALSE]
    /\ cancelled = FALSE
    /\ call = NoCall
    /\ nonces = [provider |-> SelectNonceProvider(nonceProviderType), dest |-> 0, funded |-> <<>>]

\* The engine as NewEVMCollector builds it from a config that names no nonce
\* provider type.
InitVariant(v) == InitWith(v, "")

\* collect: the steps of one account's workflow.
Workflow(i) ==
    \/ BalanceOf(i) \/ GasCap(i) \/ CreateERC20Tx(i) \/ BalanceAt(i)
    \/ CreateTx(i) \/ TransferNative(i) \/ TransferERC20(i)
    \/ VerifyQuery(i) \/ VerifyTick(i) \/ VerifyDone(i)

\* evmCollector, src/collector.go:356-496.
Init == InitVariant("evm")

Next == (\E i \in Accounts : Workflow(i) \/ CollectAppend(i)) \/ CollectReturn

Spec == Init /\ [][Next]_vars

\* evmCollector under its scheduling: a call that can answer does answer, and
\* the deadline of WithTimeout elapses while VerifyTx polls, so that its select
\* finds ctx.Done() ready. The Amounts are the two that take different paths
\* through the amount resolution.
InitLive ==
    /\ InitVariant("evm")
    /\ \A i \in Accounts : accounts[i].Amount \in {<<>>, <<"x">>}

SpecLive ==
    /\ InitLive /\ [][Next]_vars
    /\ WF_vars(Next)
    /\ \A i \in Accounts : SF_vars(VerifyDone(i))

\* evmCollector, with a caller that may cancel the context.
NextCancel == Next \/ Cancel

SpecCancel == Init /\ [][NextCancel]_vars

\* evmTransactor.VerifyTx, called on its own.
InitVerify ==
    /\ variant = "evm"
    /\ accounts = [i \in Accounts |-> [Amount |-> <<>>]]
    /\ cursor = 1
    /\ pc = [i \in Accounts |-> "balanceOf"]
    /\ loc = [i \in Accounts |-> NoLocals]
    /\ results = EmptySlice
    /\ heap = <<>>
    /\ sent = [i \in Accounts |-> <<>>]
    /\ polls = [i \in Accounts |-> <<>>]
    /\ quotes = [i \in Accounts |-> 0]
    /\ wg = 0
    /\ ret = [state |-> "running", list |-> <<>>, err |-> FALSE]
    /\ cancelled = FALSE
    /\ call \in CallInputs
    /\ nonces = [provider |-> SelectNonceProvider(""), dest |-> 0, funded |-> <<>>]

NextVerify == VerifyTxStart \/ VerifyTxQuery \/ VerifyTxTick \/ VerifyTxDone \/ Cancel

SpecVerify == InitVerify /\ [][NextVerify]_vars

\* ------------------------------------------------ functions on their own
\* Collect is not running: a function of the Transactor is called by itself.
NoCollect ==
    /\ variant = "evm"
    /\ accounts = [i \in Accounts |-> [Amount |-> <<>>]]
    /\ cursor = 1
    /\ pc = [i \in Accounts |-> "balanceOf"]
    /\ loc = [i \in Accounts |-> NoLocals]
    /\ results = EmptySlice
    /\ heap = <<>>
    /\ sent = [i \in Accounts |-> <<>>]
    /\ polls = [i \in Accounts |-> <<>>]
    /\ quotes = [i \in Accounts |-> 0]
    /\ wg = 0
    /\ ret = [state |-> "running", list |-> <<>>, err |-> FALSE]
    /\ cancelled = FALSE

collectVars ==
    <<variant, accounts, cursor, pc, loc, results, heap, sent, polls, quotes, wg, ret,
      cancelled>>

\* ------------------------------------------- the nonce provider on its own
SignerAddresses == {"destination", "source"}

\* How a provider comes to be: NewFixedNonceProvider called with nil or a
\* value, or NewEVMCollector handed a config with some NonceProviderType.
NonceInputs ==
    LET new(made, nonce, type) ==
            [state |-> "nonce", made |-> made, nonce |-> nonce, type |-> type,
             chain |-> [a \in SignerAddresses |-> 0], answers |-> <<>>]
    IN  {new("fixed", n, "") : n \in {<<>>} \cup {<<k>> : k \in 0..MaxNonce}}
        \cup {new("config", <<>>, t) : t \in {"", NonceProviderTypeFixed, NonceProviderTypeNetwork, "other"}}

ProviderOf(c) ==
    IF c.made = "fixed" THEN NewFixedNonceProvider(c.nonce) ELSE SelectNonceProvider(c.type)

InitNonce ==
    /\ NoCollect
    /\ call \in NonceInputs
    /\ nonces = [provider |-> ProviderOf(call), dest |-> 0, funded |-> <<>>]

\* provider.GetNonce(ctx, address).
NonceGetNonce ==
    /\ call.state = "nonce" /\ Len(call.answers) < MaxCalls
    /\ \E a \in SignerAddresses :
         call' = [call EXCEPT !.answers =
                     Append(@, [address |-> a,
                                nonce |-> GetNonce(nonces.provider, call.chain[a])])]
    /\ UNCHANGED <<collectVars, nonces>>

\* A transaction signed by address a has been built, sent and mined.
NonceMine ==
    /\ call.state = "nonce"
    /\ \E a \in SignerAddresses :
         /\ call.chain[a] < MaxNonce
         /\ call' = [call EXCEPT !.chain[a] = @ + 1]
    /\ UNCHANGED <<collectVars, nonces>>

SpecNonce == InitNonce /\ [][NonceGetNonce \/ NonceMine]_vars

\* ------------------------------------------------ the gas oracle on its own
\* safeLow values an answer may carry, in half wei: negative, zero, positive,
\* and one so large that num * 10^9 is +Inf.
OracleHalfWeis == ((0 - MaxHalfWei)..MaxHalfWei) \cup {PosInf}

\* What the oracle's URL answers: nothing (a transport error), a body that is
\* no JSON, or a JSON object whose safeLow holds maxPriorityFee and maxFee or
\* lacks them (<<>>: the field is not in the body).
OracleBodies ==
    {[kind |-> k, maxPriorityFee |-> <<>>, maxFee |-> <<>>] : k \in {"unreachable", "notjson"}}
    \cup {[kind |-> "json", maxPriorityFee |-> p, maxFee |-> f] :
            p \in {<<>>} \cup {<<h>> : h \in OracleHalfWeis},
            f \in {<<>>} \cup {<<h>> : h \in OracleHalfWeis}}

\* json.Unmarshal into a float64 field: a field the body lacks keeps the zero
\* value of the struct.
UnmarshalFloat(field) == IF field = <<>> THEN 0 ELSE field[1]

\* GetSuggestedGasPriceFromGasTracker: http.Get, ReadAll, json.Unmarshal.
GetSuggestedGasPriceFromGasTracker(body) ==
    IF body.kind \in {"unreachable", "notjson"}
    THEN [err |-> TRUE, tip |-> 0, fee |-> 0]
    ELSE [err |-> FALSE, tip |-> UnmarshalFloat(body.maxPriorityFee),
          fee |-> UnmarshalFloat(body.maxFee)]

\* GetGasCapValues is called; the oracle's URL will answer some body.
InitOracle ==
    /\ NoCollect
    /\ call \in {[state |-> "request", body |-> b,
                   resp |-> [err |-> FALSE, tip |-> 0, fee |-> 0],
                   quote |-> [err |-> FALSE, tip |-> 0, fee |-> 0]] : b \in OracleBodies}
    /\ nonces = [provider |-> SelectNonceProvider(""), dest |-> 0, funded |-> <<>>]

\* GetGasCapValues returns (tip, fee, err).
OracleReturn(q) == call' = [call EXCEPT !.state = "returned", !.quote = q]

\* http.Get and ioutil.ReadAll.
OracleGet ==
    /\ call.state = "request"
    /\ IF call.body.kind = "unreachable"
       THEN OracleReturn(GetGasCapValues(GetSuggestedGasPriceFromGasTracker(call.body)))
       ELSE call' = [call EXCEPT !.state = "unmarshal"]
    /\ UNCHANGED <<collectVars, nonces>>

\* json.Unmarshal(body, &result).
OracleUnmarshal ==
    /\ call.state = "unmarshal"
    /\ LET resp == GetSuggestedGasPriceFromGasTracker(call.body)
       IN  IF resp.err THEN OracleReturn(GetGasCapValues(resp))
           ELSE call' = [call EXCEPT !.state = "convert", !.resp = resp]
    /\ UNCHANGED <<collectVars, nonces>>

\* GetGasCapValues: formatFloat and SetString of the two safeLow values.
OracleConvert ==
    /\ call.state = "convert"
    /\ OracleReturn(GetGasCapValues(call.resp))
    /\ UNCHANGED <<collectVars, nonces>>

SpecOracle == InitOracle /\ [][OracleGet \/ OracleUnmarshal \/ OracleConvert]_vars

\* --------------------------------------------- the ERC-20 payload, in bytes
\* A []byte is a sequence of 0..255; a big.Int's magnitude is held base 256.
Reverse(s) == [k \in 1..Len(s) |-> s[Len(s) + 1 - k]]

Zeros(n) == [k \in 1..n |-> 0]

RECURSIVE StripZeroBytes(_)
StripZeroBytes(b) ==
    IF b # <<>> /\ Head(b) = 0 THEN StripZeroBytes(Tail(b)) ELSE b

\* b * m + carry, on bytes with the least significant first.
RECURSIVE MulAddLE(_, _, _)
MulAddLE(b, m, carry) ==
    IF b = <<>>
    THEN IF carry = 0 THEN <<>> ELSE <<carry % 256>> \o MulAddLE(<<>>, m, carry \div 256)
    ELSE LET v == Head(b) * m + carry
         IN  <<v % 256>> \o MulAddLE(Tail(b), m, v \div 256)

\* The digits of s taken into acc, six at a time.
RECURSIVE DigitsToLE(_, _)
DigitsToLE(s, acc) ==
    IF s = <<>> THEN acc
    ELSE LET n == IF Len(s) < 6 THEN Len(s) ELSE 6
         IN  DigitsToLE(SubSeq(s, n + 1, Len(s)),
                        MulAddLE(acc, 10 ^ n, DigitsValue(SubSeq(s, 1, n), 0)))

\* amount.SetString(amountWei, 10) followed by amount.Bytes(): the magnitude
\* of what SetString leaves in amount, most significant byte first, no
\* leading zero.
AmountBytes(amountWei) ==
    LET signed == amountWei # <<>> /\ Head(amountWei) \in {"+", "-"}
        body == IF signed THEN Tail(amountWei) ELSE amountWei
        n == DigitPrefixLen(body)
    IN  Reverse(DigitsToLE(SubSeq(body, 1, n), <<>>))

\* Padding on the right.
RightPadBytes(slice, l) ==
    IF l <= Len(slice) THEN slice ELSE slice \o Zeros(l - Len(slice))

\* common.LeftPadBytes(slice, l): zeros in front up to length l; a longer
\* slice is returned as it is.
LeftPadBytes(slice, l) ==
    IF l <= Len(slice) THEN slice ELSE Zeros(l - Len(slice)) \o slice

\* Keccak256("transfer(address,uint256)")[:4] = a9059cbb.
methodID == <<169, 5, 156, 187>>

\* getTransactionData(toAddress, amountWei), byte by byte.
getTransactionDataBytes(toAddress, amountWei) ==
    methodID \o LeftPadBytes(toAddress, 32) \o LeftPadBytes(AmountBytes(amountWei), 32)

\* The quotient and the remainder of a magnitude (most significant byte
\* first) divided by 10^6.
RECURSIVE QuotBE(_, _)
QuotBE(b, r) ==
    IF b = <<>> THEN <<>>
    ELSE LET v == r * 256 + Head(b)
         IN  <<v \div 1000000>> \o QuotBE(Tail(b), v % 1000000)

RECURSIVE RemBE(_, _)
RemBE(b, r) == IF b = <<>> THEN r ELSE RemBE(Tail(b), (r * 256 + Head(b)) % 1000000)

\* The digits of a magnitude, six at a time from the right.
RECURSIVE MagString(_)
MagString(m) ==
    IF m = <<>> THEN <<>>
    ELSE LET q == StripZeroBytes(QuotBE(m, 0))
             r == NatString(RemBE(m, 0))
         IN  IF q = <<>> THEN r
             ELSE MagString(q) \o [k \in 1..(6 - Len(r)) |-> "0"] \o r

\* new(big.Int).SetBytes(b).String(): the decoder of an ABI uint256 word.
BytesString(b) ==
    LET s == MagString(StripZeroBytes(b)) IN IF s = <<>> THEN <<"0">> ELSE s

\* common.BytesToAddress(word): the last 20 bytes.
BytesToAddress(word) ==
    IF Len(word) <= 20 THEN LeftPadBytes(word, 20)
    ELSE SubSeq(word, Len(word) - 19, Len(word))

DigitString(ds) == [k \in 1..Len(ds) |-> Digits[ds[k] + 1]]

\* 2^256 - 1 and 2^256 in base 10.
MaxUint256String ==
    DigitString(<<
        1, 1, 5, 7, 9, 2, 0, 8, 9, 2, 3, 7, 3, 1, 6, 1, 9, 5, 4, 2, 3, 5,
        7, 0, 9, 8, 5, 0, 0, 8, 6, 8, 7, 9, 0, 7, 8, 5, 3, 2, 6, 9, 9, 8,
        4, 6, 6, 5, 6, 4, 0, 5, 6, 4, 0, 3, 9, 4, 5, 7, 5, 8, 4, 0, 0, 7,
        9, 1, 3, 1, 2, 9, 6, 3, 9, 9, 3, 5
    >>)

OverUint256String ==
    DigitString(<<
        1, 1, 5, 7, 9, 2, 0, 8, 9, 2, 3, 7, 3, 1, 6, 1, 9, 5, 4, 2, 3, 5,
        7, 0, 9, 8, 5, 0, 0, 8, 6, 8, 7, 9, 0, 7, 8, 5, 3, 2, 6, 9, 9, 8,
        4, 6, 6, 5, 6, 4, 0, 5, 6, 4, 0, 3, 9, 4, 5, 7, 5, 8, 4, 0, 0, 7,
        9, 1, 3, 1, 2, 9, 6, 3, 9, 9, 3, 6
    >>)

\* Recipients: the zero address, 0x00..01, 0x0100..00 and 0xff..ff.
RecipientAddresses ==
    {Zeros(20), Zeros(19) \o <<1>>, <<1>> \o Zeros(19), [k \in 1..20 |-> 255]}

\* Decimal strings of non-negative integers below 2^256.
AmountsInRange ==
    {NatString(n) : n \in {0, 1, 255, 256, 65535, 65536}}
    \cup {<<"0", "0", "7">>, MaxUint256String}

\* Other strings a caller may hand in: 2^256, a negative number, no number.
AmountsOutOfRange == {OverUint256String, <<"-", "1">>, <<"x">>}

\* The same number without leading zeros.
RECURSIVE Canonical(_)
Canonical(s) == IF Len(s) > 1 /\ Head(s) = "0" THEN Canonical(Tail(s)) ELSE s

\* getTransactionData is about to be called with a recipient and an amount.
InitPayload ==
    /\ NoCollect
    /\ call \in {[state |-> "args", toAddress |-> a, amountWei |-> w, data |-> <<>>,
                   recipient |-> <<>>, amount |-> <<>>] :
                     a \in RecipientAddresses, w \in AmountsInRange \cup AmountsOutOfRange}
    /\ nonces = [provider |-> SelectNonceProvider(""), dest |-> 0, funded |-> <<>>]

\* data := getTransactionData(receiverAddress, params.Amount).
PayloadEncode ==
    /\ call.state = "args"
    /\ call' = [call EXCEPT !.state = "encoded",
                            !.data = getTransactionDataBytes(call.toAddress, call.amountWei)]
    /\ UNCHANGED <<collectVars, nonces>>

\* The token contract's reading of the call data: the address in bytes
\* 4..36, the uint256 in bytes 36..68.
PayloadDecode ==
    /\ call.state = "encoded" /\ Len(call.data) >= 68
    /\ call' = [call EXCEPT !.state = "decoded",
                            !.recipient = BytesToAddress(SubSeq(call.data, 5, 36)),
                            !.amount = BytesString(SubSeq(call.data, 37, 68))]
    /\ UNCHANGED <<collectVars, nonces>>

SpecPayload == InitPayload /\ [][PayloadEncode \/ PayloadDecode]_vars

\* ------------------------------------------ the funding-need estimate alone
\* collect has a token transfer with some gas limit (any unsigned word the
\* chain's estimate may be) and a quote, and is about to compute estimatedFee.
InitEstimate ==
    /\ NoCollect
    /\ call \in {[state |-> "built", gas |-> g, tip |-> t, fee |-> f, estimatedFee |-> 0] :
                   g \in 0..(2 ^ WordBits - 1), t \in 0..MaxHalfWei, f \in 0..MaxHalfWei}
    /\ nonces = [provider |-> SelectNonceProvider(""), dest |-> 0, funded |-> <<>>]

\* estimatedFee := new(big.Int).Add(new(big.Int).Mul(big.NewInt(int64(gas)), fee), tip).
EstimateFee ==
    /\ call.state = "built"
    /\ call' = [call EXCEPT !.state = "estimated",
                            !.estimatedFee = EstimatedFee(call.gas, call.fee, call.tip)]
    /\ UNCHANGED <<collectVars, nonces>>

SpecEstimate == InitEstimate /\ [][EstimateFee]_vars

\* PolygonCollector, src/collector.go:66-207.
InitPolygon == InitWith("polygon", NonceProviderTypeNetwork)

NextPolygon ==
    \/ DecryptCollectionKey
    \/ \E i \in Accounts : DecryptKey(i) \/ Workflow(i) \/ CollectAppend(i)
    \/ CollectReturn

SpecPolygon == InitPolygon /\ [][NextPolygon]_vars

\* evmCollector with the loop body inline, src/unnamed/part_003.
InitInline == InitVariant("inline")

SpecInline == InitInline /\ [][Next]_vars

\* evmCollector with one goroutine per account, src/unnamed/part_004.
InitConc == InitVariant("conc")

NextConc ==
    \/ \E i \in Accounts :
         \/ Spawn(i) \/ Workflow(i)
         \/ AppendRead(i) \/ AppendWrite(i) \/ AppendPublish(i) \/ WgDone(i)
    \/ WaitReturn

SpecConc == InitConc /\ [][NextConc]_vars

\* The same, for accounts that all ask for their whole balance.
InitJoin == InitConc /\ \A i \in Accounts : accounts[i].Amount = <<>>

SpecJoin == InitJoin /\ [][NextConc]_vars

\* The same, built from a config that names the network nonce provider.
InitConcNet ==
    /\ InitWith("conc", NonceProviderTypeNetwork)
    /\ \A i \in Accounts : accounts[i].Amount = <<>>

SpecConcNet == InitConcNet /\ [][NextConc]_vars

\* evmCollector built from a config that names the network nonce provider,
\* for accounts that all ask for their whole balance.
InitNet ==
    /\ InitWith("evm", NonceProviderTypeNetwork)
    /\ \A i \in Accounts : accounts[i].Amount = <<>>

SpecNet == InitNet /\ [][Next]_vars


\* ================================================================== claims
Sent(i, kind) == {k \in 1..Len(sent[i]) : sent[i][k].kind = kind}

Polled(i, kind, ends) ==
    \E k \in 1..Len(polls[i]) : polls[i][k].kind = kind /\ polls[i][k].end \in ends

Returned(i, status) == pc[i] = "returned" /\ loc[i].result.Status = status

\* The funding decision has been reached: BalanceAt has answered.
Decided(i) == loc[i].native >= 0

\* The list Collect returned holds exactly one Result for each input account.
OnePerAccount(list) ==
    /\ Len(list) = NumAccounts
    /\ \A i \in Accounts : Cardinality({k \in 1..Len(list) : list[k].SourceAccount = i}) = 1

\* C1: for every list of N accounts and every combination of per-account
\* outcomes, Collect returns exactly N Results, one for each input account. It
\* fails for PolygonCollector.Collect: an account with a zero token balance gets
\* its skip Result and, the loop body running on, a second Result.
C1_ExactlyOneResultPerAccount ==
    (ret.state = "returned" /\ ~ret.err) => OnePerAccount(ret.list)

\* C2: in the concurrent Collect, for every interleaving of the workers' appends,
\* the returned list holds exactly one Result per worker. It fails: two workers
\* that read the same slice header overwrite each other's append.
C2_NoAppendLost ==
    ret.state = "returned" => OnePerAccount(ret.list)

\* C3: when funding is needed, the token transfer is broadcast only after the
\* funding poll returned a receipt with success status; a funding poll that ends
\* with no receipt by the deadline or with a reverted receipt makes the outcome
\* Fail, and the token transfer is not broadcast.
C3_TransferOnlyAfterFundingConfirmed ==
    \A i \in Accounts :
        /\ (Decided(i) /\ loc[i].remainingFee > 0
              /\ (pc[i] \in {"transferERC20", "verifyERC20", "waitERC20"} \/ Sent(i, "erc20") # {}))
           => /\ Polled(i, "native", {"success"})
              /\ sent[i][1] = [kind |-> "native", err |-> ""]
        /\ Polled(i, "native", {"reverted", "expired"})
           => Returned(i, StatusFail) /\ Sent(i, "erc20") = {}

\* A funded account whose token transfer went out after the funding was mined.
C3_Witness ==
    \E i \in Accounts :
        /\ Decided(i) /\ loc[i].remainingFee > 0
        /\ Polled(i, "native", {"success"})
        /\ Sent(i, "erc20") # {}

\* C4: an account that reaches the funding decision with a native balance below
\* estimatedFee (zero included) gets exactly one funding transaction, broadcast
\* before the token transfer, of value estimatedFee - nativeBalance. It fails in
\* part_003 and in PolygonCollector: a native balance of zero is never funded.
C4_ShortfallIsFunded ==
    \A i \in Accounts :
        (Decided(i) /\ loc[i].native < loc[i].estimatedFee /\ pc[i] = "transferERC20")
        => /\ sent[i] = <<[kind |-> "native", err |-> ""]>>
           /\ loc[i].nativTx.value = loc[i].estimatedFee - loc[i].native

\* C5: an account that reaches the funding decision with a native balance of at
\* least estimatedFee (equality included) gets no funding transaction built or
\* broadcast. It fails in part_003: at equality a funding transaction of value 0
\* is built and broadcast.
C5_NoFundingWhenCovered ==
    \A i \in Accounts :
        (Decided(i) /\ loc[i].native >= loc[i].estimatedFee)
        => /\ pc[i] \notin {"createTx", "transferNative", "verifyNative", "waitNative"}
           /\ loc[i].nativTx = NoTx
           /\ Sent(i, "native") = {}

\* C6: an account whose token balance is zero ends with Skip there: no fee quote
\* is requested, no transaction is built, none is broadcast. It fails for
\* PolygonCollector.Collect, whose loop body runs on after the skip.
C6_ZeroBalanceSkipsAndStops ==
    \A i \in Accounts :
        loc[i].tokenBalance = 0
        => /\ Returned(i, StatusSkip)
           /\ quotes[i] = 0
           /\ loc[i].erc20Tx = NoTx /\ loc[i].nativTx = NoTx
           /\ sent[i] = <<>>

\* C7: an account whose fixed Amount is above its (non-zero) token balance ends
\* with Fail and nothing is broadcast. It fails for collect of part_004, which
\* never compares the Amount with the balance.
C7_AmountAboveBalanceFails ==
    \A i \in Accounts :
        LET a == SetString(accounts[i].Amount)
        IN  (a.ok /\ loc[i].tokenBalance > 0 /\ a.val > loc[i].tokenBalance)
            => Returned(i, StatusFail) /\ sent[i] = <<>> /\ loc[i].erc20Tx = NoTx

\* C8: for an account with an empty Amount and a non-zero token balance, the
\* amount encoded in the token transfer is the whole token balance. It fails for
\* collect of part_004, which hands the empty Amount to the payload builder.
C8_EmptyAmountCollectsBalance ==
    \A i \in Accounts :
        (accounts[i].Amount = <<>> /\ loc[i].erc20Tx.kind = "erc20")
        => loc[i].erc20Tx.amount = loc[i].tokenBalance

\* C9: a token transfer whose broadcast fails with "nonce too low" ends the
\* account with Skip, never Fail. It fails for PolygonCollector.Collect, where
\* every broadcast error is a Fail.
C9_NonceTooLowIsSkip ==
    \A i \in Accounts :
        (\E k \in Sent(i, "erc20") : sent[i][k].err = nonceTooLow)
        => Returned(i, StatusSkip)

\* C10: a token transfer whose broadcast fails with "already known" or
\* "replacement transaction underpriced" ends the account with Pending, and no
\* receipt is polled for it.
C10_KnownOrUnderpricedIsPending ==
    \A i \in Accounts :
        (\E k \in Sent(i, "erc20") :
            sent[i][k].err \in {alreadyKnown, replacementTransactionUnderpriced})
        => /\ Returned(i, StatusPending)
           /\ ~Polled(i, "erc20", {"success", "reverted", "expired"})

\* A token transfer refused as underpriced replacement, its account pending.
C10_Witness ==
    \E i \in Accounts :
        /\ \E k \in Sent(i, "erc20") : sent[i][k].err = replacementTransactionUnderpriced
        /\ Returned(i, StatusPending)

\* C11: a token transfer whose broadcast fails with a message that is none of
\* "nonce too low", "already known" and "replacement transaction underpriced"
\* ends the account with Fail.
C11_OtherBroadcastErrorIsFail ==
    \A i \in Accounts :
        (\E k \in Sent(i, "erc20") :
            sent[i][k].err \notin {"", nonceTooLow, alreadyKnown,
                                   replacementTransactionUnderpriced})
        => Returned(i, StatusFail)

\* A token transfer refused for insufficient funds, its account failed.
C11_Witness ==
    \E i \in Accounts :
        /\ \E k \in Sent(i, "erc20") : sent[i][k].err = "insufficient funds"
        /\ Returned(i, StatusFail)

\* C12: a confirmation poll that finds a reverted receipt ends the account with
\* Fail, for the funding transaction and for the token transfer alike. It fails
\* for the token transfer: VerifyTx answers (false, nil) and collect reports
\* Pending.
C12_RevertedReceiptIsFail ==
    \A i \in Accounts :
        (Polled(i, "native", {"reverted"}) \/ Polled(i, "erc20", {"reverted"}))
        => Returned(i, StatusFail)

\* C13: a token transfer broadcast without error, for which no receipt is found
\* before the confirmation deadline elapses (the caller's context not
\* cancelled), ends the account with Pending, never Fail. It fails: VerifyTx
\* returns ctx.Err() at the deadline and collect reports Fail.
C13_TransferTimeoutIsPending ==
    \A i \in Accounts :
        (~cancelled /\ Polled(i, "erc20", {"expired"})
           /\ \E k \in Sent(i, "erc20") : sent[i][k].err = "")
        => Returned(i, StatusPending)

\* C14: the Result of an account whose token transfer is mined with success
\* status has Status Success and carries the hash of that transaction; a Result
\* of any other status carries no hash. It fails: Result of evmCollector has no
\* field for the hash.
C14_SuccessCarriesHash ==
    \A i \in Accounts :
        /\ Polled(i, "erc20", {"success"})
           => /\ Returned(i, StatusSuccess)
              /\ ResultHash(loc[i].result) = HashHex(loc[i].erc20Tx)
        /\ (pc[i] = "returned" /\ loc[i].result.Status # StatusSuccess)
           => ResultHash(loc[i].result) = ""

\* C15: a hard error in one account's workflow touches that account's Result
\* alone: once Collect has returned, every account has been processed and has
\* its Result in the list. It fails for PolygonCollector.Collect, which returns
\* (nil, err) from inside the loop (cursor > 0: the loop was entered).
C15_ErrorsStayLocal ==
    (ret.state = "returned" /\ cursor > 0)
    => \A i \in Accounts :
          /\ pc[i] = "done"
          /\ \E k \in 1..Len(ret.list) : ret.list[k].SourceAccount = i

\* C16: no per-account error escapes Collect: for every input, a fixed Amount
\* that is no base-10 integer included, Collect neither returns an error nor
\* terminates abnormally. It fails: such an Amount is dereferenced as nil.
C16_NoErrorEscapes ==
    ret.state # "panicked" /\ ~ret.err

\* C17: once the caller's context is cancelled, an account workflow performs no
\* further broadcast. It fails: Transfer sends with context.Background().
C17_NoBroadcastAfterCancel ==
    [][cancelled => sent' = sent]_vars

\* C18: every Result Collect returns carries one of the four statuses, never an
\* empty one, and the list returned for a non-empty account list is not empty.
\* It fails for PolygonCollector.Collect, which returns a nil list on an error.
C18_StatusesAreClosed ==
    ret.state = "returned"
    => /\ Len(ret.list) > 0
       /\ \A k \in 1..Len(ret.list) : ret.list[k].Status \in Statuses

\* C19: VerifyTx that ends without a receipt because its deadline elapsed
\* returns false and no error; it returns an error only when the calling
\* context was cancelled. It fails: both ends return ctx.Err().
C19_DeadlineIsNotAnError ==
    call.state = "returned"
    => /\ call.end = "expired" => (~call.isMined /\ ~call.err)
       /\ call.end = "cancelled" => call.err

\* C20: VerifyTx called with a context without deadline returns an error at once,
\* with no receipt query issued; the calls collect makes (funding, token
\* transfer) carry a deadline, and never get that error.
C20_DeadlineRequired ==
    /\ (call.state = "returned" /\ ~call.ctx.hasDeadline)
       => (call.err /\ call.msg = deadlineNotSet /\ call.queries = 0)
    /\ call.caller \in {"funding", "transfer"}
       => /\ call.ctx.hasDeadline
          /\ call.msg # deadlineNotSet

\* A direct call without deadline that was refused before any query.
C20_Witness ==
    /\ call.state = "returned" /\ call.caller = "direct" /\ ~call.ctx.hasDeadline
    /\ call.msg = deadlineNotSet /\ call.queries = 0

\* C22: when the Gas Fee Oracle request fails, or its answer cannot be converted,
\* the account ends with Fail, no fee value stands in for the quote, and no
\* transaction is built or broadcast for the account.
C22_OracleFailureIsFail ==
    \A i \in Accounts :
        loc[i].oracle \in {"error", "unconvertible"}
        => /\ Returned(i, StatusFail)
           /\ loc[i].tip = 0 - 1 /\ loc[i].fee = 0 - 1
           /\ loc[i].erc20Tx = NoTx /\ loc[i].nativTx = NoTx
           /\ sent[i] = <<>>

\* An account failed on an answer whose fee overflows the conversion.
C22_Witness ==
    \E i \in Accounts : loc[i].oracle = "unconvertible" /\ Returned(i, StatusFail)

\* C23: within one account's workflow the fee quote is obtained exactly once,
\* and the funding transaction (when built) and the token transfer carry the
\* priority fee and the max fee of that one quote.
C23_OneQuotePricesBoth ==
    \A i \in Accounts :
        /\ quotes[i] <= 1
        /\ loc[i].erc20Tx # NoTx
           => /\ quotes[i] = 1 /\ loc[i].oracle = "quoted"
              /\ loc[i].erc20Tx.tip = loc[i].tip /\ loc[i].erc20Tx.fee = loc[i].fee
        /\ loc[i].nativTx # NoTx
           => /\ loc[i].nativTx.tip = loc[i].erc20Tx.tip
              /\ loc[i].nativTx.fee = loc[i].erc20Tx.fee
              /\ loc[i].nativTx.tip = loc[i].tip /\ loc[i].nativTx.fee = loc[i].fee

\* An account with both transactions built and the token transfer sent.
C23_Witness ==
    \E i \in Accounts :
        /\ loc[i].nativTx # NoTx /\ loc[i].erc20Tx # NoTx
        /\ Sent(i, "erc20") # {}

\* C30: the token transfer broadcast in step 7 is the transaction built and
\* signed in step 4: nonce, gas limit, fees, amount and hash are what they were,
\* whether or not the funding steps ran in between.
C30_BroadcastIsTheBuiltTransfer ==
    \A i \in Accounts :
        /\ loc[i].erc20Tx = loc[i].built
        /\ Sent(i, "erc20") # {}
           => /\ loc[i].broadcast = loc[i].built
              /\ HashHex(loc[i].broadcast) = HashHex(loc[i].built)
              /\ loc[i].built.kind = "erc20"

\* A token transfer broadcast after a funding transaction was sent and mined.
C30_Witness ==
    \E i \in Accounts :
        /\ Polled(i, "native", {"success"})
        /\ Sent(i, "erc20") # {} /\ loc[i].broadcast = loc[i].built

\* C21: every call of VerifyTx with a deadline ends, whatever the receipt
\* queries answer, at the latest when the deadline elapses; an account workflow
\* makes at most two such waits, one for the funding transaction and one for
\* the token transfer; and Collect comes to its end, by returning its list
\* whenever no account's Amount stops it (an Amount that is no integer ends it
\* abnormally, the matter of C16).
C21_PollsEndAndCollectEnds ==
    /\ \A i \in Accounts :
          (pc[i] \in {"verifyNative", "waitNative", "verifyERC20", "waitERC20"})
          ~> (pc[i] \notin {"verifyNative", "waitNative", "verifyERC20", "waitERC20"})
    /\ [](\A i \in Accounts :
            /\ Len(polls[i]) <= 2
            /\ Cardinality({k \in 1..Len(polls[i]) : polls[i][k].kind = "native"}) <= 1
            /\ Cardinality({k \in 1..Len(polls[i]) : polls[i][k].kind = "erc20"}) <= 1)
    /\ <>(ret.state # "running")
    /\ ((\A i \in Accounts : accounts[i].Amount = <<>>) => <>(ret.state = "returned"))

\* A workflow whose two waits have ended, the second at its deadline.
C21_Witness ==
    \E i \in Accounts :
        /\ pc[i] = "returned" /\ Len(polls[i]) = 2
        /\ polls[i][1] = [kind |-> "native", end |-> "success"]
        /\ polls[i][2] = [kind |-> "erc20", end |-> "expired"]

\* C27: the concurrent Collect returns its list only after every worker has
\* finished its workflow and its append: once Collect has returned no worker is
\* running, and the list returned is all that `results` holds.
C27_ReturnAfterAllWorkers ==
    ret.state = "returned"
    => /\ \A i \in Accounts : pc[i] = "done"
       /\ wg = 0
       /\ ret.list = SliceList(results, heap)

\* Collect returned after workers that ran the whole workflow.
C27_Witness ==
    /\ ret.state = "returned"
    /\ \A i \in Accounts : pc[i] = "done"
    /\ \E k \in 1..Len(ret.list) : ret.list[k].Status = StatusSuccess

\* C28: in the concurrent Collect, no two funding transactions built during one
\* Collect carry the same nonce of the destination account. It fails: two
\* workers ask the network provider before either transaction is mined and
\* both get the chain's count.
C28_FundingNoncesDiffer ==
    \A i, j \in Accounts :
        (i # j /\ loc[i].nativTx # NoTx /\ loc[j].nativTx # NoTx)
        => loc[i].nativTx.nonce # loc[j].nativTx.nonce

\* C29: the fixed nonce provider answers the same value on every call, for
\* every address and however many transactions were mined before: the value it
\* was given, 0 when it was given none; and NewEVMCollector picks the fixed
\* provider with value 0 for every NonceProviderType but "network", the empty
\* one included.
C29_FixedNonceIsConstant ==
    call.state = "nonce" =>
        /\ call.made = "fixed" =>
              \A k \in 1..Len(call.answers) :
                  call.answers[k].nonce = IF call.nonce = <<>> THEN 0 ELSE call.nonce[1]
        /\ (call.made = "config" /\ call.type # "network") =>
              /\ nonces.provider = [type |-> "fixed", nonce |-> 0]
              /\ \A k \in 1..Len(call.answers) : call.answers[k].nonce = 0

\* The provider of a config without a type, asked for both addresses, the
\* last time after transactions of the destination were mined.
C29_Witness ==
    /\ call.state = "nonce" /\ call.made = "config" /\ call.type = ""
    /\ Len(call.answers) = MaxCalls
    /\ call.answers[1].address # call.answers[2].address
    /\ call.chain["destination"] = MaxNonce
    /\ call.answers[MaxCalls].nonce = 0

\* C24: a quote GetGasCapValues returns without error has a priority fee and a
\* max fee that are not negative, whatever the oracle answered. It fails for
\* an answer with a negative safeLow value.
C24_QuoteIsNonNegative ==
    (call.state = "returned" /\ "quote" \in DOMAIN call /\ ~call.quote.err)
    => (call.quote.tip >= 0 /\ call.quote.fee >= 0)

\* C25: a JSON answer that lacks safeLow.maxPriorityFee or safeLow.maxFee is an
\* error of the oracle, never a quote. It fails: the missing field is read as 0.
C25_MissingFieldIsError ==
    (/\ call.state = "returned" /\ "body" \in DOMAIN call
     /\ call.body.kind = "json"
     /\ (call.body.maxPriorityFee = <<>> \/ call.body.maxFee = <<>>))
    => call.quote.err

\* C26: for a recipient and a decimal string of a non-negative integer below
\* 2^256, getTransactionData returns 68 bytes: the selector of
\* transfer(address,uint256), the recipient padded on the left to 32 bytes,
\* the amount big-endian padded on the left to 32 bytes; and reading bytes
\* 4..36 and 36..68 back gives the recipient and the amount.
C26_PayloadRoundTrip ==
    (call.state \in {"encoded", "decoded"} /\ "data" \in DOMAIN call
     /\ call.amountWei \in AmountsInRange)
    => /\ Len(call.data) = 68
       /\ SubSeq(call.data, 1, 4) = methodID
       /\ SubSeq(call.data, 5, 16) = Zeros(12)
       /\ SubSeq(call.data, 17, 36) = call.toAddress
       /\ BytesString(SubSeq(call.data, 37, 68)) = Canonical(call.amountWei)
       /\ call.state = "decoded" =>
             /\ call.recipient = call.toAddress
             /\ call.amount = Canonical(call.amountWei)

\* 2^256 - 1 sent to a recipient whose first byte is set, encoded and read back.
C26_Witness ==
    /\ call.state = "decoded"
    /\ call.amountWei = MaxUint256String
    /\ call.toAddress = <<1>> \o Zeros(19)
    /\ call.amount = MaxUint256String
    /\ SubSeq(call.data, 37, 68) = [k \in 1..32 |-> 255]

\* C31: the funding-need estimate is gasLimit * maxFee + priorityFee for every
\* gas limit an unsigned word can hold and every quote; it is never negative,
\* and never below maxFee when the gas limit is at least 1. It fails for a gas
\* limit in the upper half of the unsigned range, which the cast to int64
\* turns negative.
C31_EstimateIsExact ==
    (call.state = "estimated" /\ "estimatedFee" \in DOMAIN call)
    => /\ call.estimatedFee = call.gas * call.fee + call.tip
       /\ call.estimatedFee >= 0
       /\ call.gas >= 1 => call.estimatedFee >= call.fee

\* C32: a failure while the funding transaction is built, signed or broadcast
\* (nonce lookup, gas estimation, signing, any broadcast error) ends the
\* account's workflow with Fail, and its token transfer is not broadcast. It
\* fails in PolygonTransactor.CreateTx, which drops EstimateGas's error.
C32_FundingFailureIsFail ==
    \A i \in Accounts :
        (\/ loc[i].nativErr # ""
         \/ \E k \in Sent(i, "native") : sent[i][k].err # "")
        => (Returned(i, StatusFail) /\ Sent(i, "erc20") = {})

\* C33: when the token transfer cannot be built or signed (nonce lookup, gas
\* estimation, signing), the account's outcome is Fail and nothing is broadcast
\* for it: no funding transaction, no token transfer.
C33_TransferBuildFailureIsFail ==
    \A i \in Accounts :
        loc[i].erc20Err # "" => (Returned(i, StatusFail) /\ sent[i] = <<>>)

\* A workflow ended by a gas estimation that failed for the token transfer.
C33_Witness ==
    \E i \in Accounts :
        /\ loc[i].erc20Err = "estimate" /\ loc[i].oracle = "quoted"
        /\ Returned(i, StatusFail) /\ loc[i].erc20Tx = NoTx

C35_LookupErrorKeepsPolling ==
    /\ ("last" \in DOMAIN call /\ call.last = "lookuperr")
       => /\ call.state \in {"wait", "query", "returned"}
          /\ call.state = "returned" => call.end \in {"expired", "cancelled"}
    /\ ("last" \in DOMAIN call /\ call.state = "returned")
       => /\ call.end \in {"entry", "success", "reverted", "expired", "cancelled"}
          /\ call.end = "success" => (call.isMined /\ ~call.err)
          /\ call.end = "reverted" => (~call.isMined /\ ~call.err)
          /\ call.err => call.msg \in {deadlineNotSet, txIsEmpty, "context canceled",
                                       "context deadline exceeded"}

\* A receipt found on the third query, after two lookups that failed.
C35_Witness ==
    /\ call.state = "returned" /\ call.errs = 2 /\ call.queries = 3
    /\ call.end = "success" /\ call.isMined /\ ~call.err

\* C36: within one Collect an account's workflow broadcasts at most one funding
\* transaction and at most one token transfer; a broadcast that was refused is
\* the workflow's last, and nothing is broadcast again after a poll that ended
\* without success or once the workflow is over.
C36_NoRebroadcast ==
    \A i \in Accounts :
        /\ Cardinality(Sent(i, "native")) <= 1
        /\ Cardinality(Sent(i, "erc20")) <= 1
        /\ \A k \in 1..Len(sent[i]) : sent[i][k].err # "" => k = Len(sent[i])
        /\ \A k \in 1..Len(polls[i]) :
              polls[i][k].end \in {"reverted", "expired", "cancelled"}
              => (pc[i] = "returned" /\ Len(sent[i]) = k)
        /\ pc[i] = "done" => sent[i] = <<>>

\* A funded workflow whose token transfer was broadcast once and ran into the
\* deadline of its poll.
C36_Witness ==
    \E i \in Accounts :
        /\ pc[i] = "returned" /\ Len(sent[i]) = 2
        /\ Polled(i, "native", {"success"}) /\ Polled(i, "erc20", {"expired"})

\* C37: in the sequential Collect the i-th Result belongs to the i-th input
\* account, and its SourceAccount is that account as it was handed in: the
\* Amount is the input's, also when the amount transferred was resolved from the
\* balance.
C37_ResultsInInputOrder ==
    /\ \A k \in 1..Len(SliceList(results, heap)) :
          /\ SliceList(results, heap)[k].SourceAccount = k
          /\ SliceList(results, heap)[k].Amount = accounts[k].Amount
    /\ ret.state = "returned"
       => /\ Len(ret.list) = NumAccounts
          /\ \A k \in 1..Len(ret.list) :
                /\ ret.list[k].SourceAccount = k
                /\ ret.list[k].Amount = accounts[k].Amount

\* Collect returned; the first account asked for its whole balance and its
\* transfer succeeded, the second asked for a fixed amount.
C37_Witness ==
    /\ ret.state = "returned" /\ Len(ret.list) = NumAccounts
    /\ ret.list[1].Amount = <<>> /\ ret.list[1].Status = StatusSuccess
    /\ ret.list[NumAccounts].Amount = NatString(1)

\* C38: the token transfer's broadcast error is classified by equality with
\* the whole message: a message that only holds "nonce too low", "already
\* known" or "replacement transaction underpriced" inside a longer text is a
\* Fail, neither Skip nor Pending.
C38_WholeMessageIsCompared ==
    \A i \in Accounts :
        \A k \in Sent(i, "erc20") :
            /\ sent[i][k].err \in {"nonce too low: next nonce 1", "tx: already known",
                                   "tx: replacement transaction underpriced: next nonce 1"}
               => Returned(i, StatusFail)
            /\ sent[i][k].err = nonceTooLow => Returned(i, StatusSkip)
            /\ sent[i][k].err \in {alreadyKnown, replacementTransactionUnderpriced}
               => Returned(i, StatusPending)

\* A token transfer refused with "nonce too low" followed by more text.
C38_Witness ==
    \E i \in Accounts :
        /\ \E k \in Sent(i, "erc20") : sent[i][k].err = "nonce too low: next nonce 1"
        /\ Returned(i, StatusFail)

\* C39: a workflow that ends with Success had a non-zero token balance, its
\* token transfer was broadcast without error and a receipt with success status
\* was seen for it; and a token transfer that follows a funding broadcast goes
\* out only when a receipt with success status has been seen for the funding.
C39_SuccessIsEarned ==
    \A i \in Accounts :
        /\ Returned(i, StatusSuccess)
           => /\ loc[i].tokenBalance > 0
              /\ \E k \in Sent(i, "erc20") : sent[i][k].err = ""
              /\ Polled(i, "erc20", {"success"})
              /\ ~Polled(i, "erc20", {"reverted", "expired", "cancelled"})
        /\ (Sent(i, "native") # {} /\ Sent(i, "erc20") # {})
           => /\ sent[i][1] = [kind |-> "native", err |-> ""]
              /\ polls[i] # <<>> /\ polls[i][1] = [kind |-> "native", end |-> "success"]

\* A funded workflow that ended with Success.
C39_Witness ==
    \E i \in Accounts :
        /\ Returned(i, StatusSuccess) /\ Len(sent[i]) = 2 /\ Len(polls[i]) = 2
        /\ loc[i].remainingFee > 0

\* C40: in the sequential Collect with the network nonce provider, and the
\* destination key used by nobody else, a funding transaction that was
\* confirmed as mined is followed only by funding transactions of later
\* accounts with a strictly greater nonce; two funding transactions of one
\* Collect carry the same nonce only if the earlier one was not confirmed.
C40_ConfirmedFundingRaisesNonce ==
    \A k, l \in 1..Len(nonces.funded) :
        k < l =>
            /\ nonces.funded[k].account < nonces.funded[l].account
            /\ nonces.funded[k].confirmed
               => nonces.funded[l].nonce > nonces.funded[k].nonce
            /\ nonces.funded[k].nonce = nonces.funded[l].nonce
               => ~nonces.funded[k].confirmed

\* Two accounts were funded, the first funding confirmed before the second
\* was built.
C40_Witness ==
    /\ Len(nonces.funded) = 2
    /\ nonces.funded[1].confirmed
    /\ nonces.funded[2].nonce = nonces.funded[1].nonce + 1

====
